---------------------------- MODULE Spec2Model ----------------------------
(***************************************************************************)
(* Client-side audio playback scheduler of neotecapp/live.                 *)
(*                                                                         *)
(* Two versions of the client are in the repository and both are modelled, *)
(* selected by the variable policy, which is fixed for a whole behaviour:  *)
(*   "threshold"  src/public/app.js     (clientPlaybackBuffer, 0.5 s       *)
(*                threshold, interruption message handled)                 *)
(*   "queue"      src/unnamed/part_001  (audioQueue of AudioBuffers, one   *)
(*                chunk per unit, no interruption message)                 *)
(*                                                                         *)
(* A sample is identified by its serial number in arrival order.  A        *)
(* Float32 sample array is written as a sequence of runs <<lo, hi>> of     *)
(* consecutive serial numbers: <<1, 5000>> is the 5000 samples of the      *)
(* first chunk.  push, splice and shift are computed on that encoding.     *)
(*                                                                         *)
(* The platform (Web Audio) is the environment: an AudioBufferSourceNode   *)
(* that was started sounds until its buffer is played or stop() is called, *)
(* and in both cases the platform queues an "ended" event, which runs the  *)
(* node's onended handler in a later task.                                 *)
(***************************************************************************)
EXTENDS Integers, Sequences, FiniteSets

VARIABLES
    policy,               \* "threshold" | "queue"
    isSessionActive,      \* app.js:7
    isLoadingSession,     \* app.js:8
    audioContext,         \* app.js:11   0 (undefined/null) or a context id
    webSocket,            \* app.js:15   0 (undefined) or a socket id
    clientPlaybackBuffer, \* app.js:23   runs of samples not yet materialized
    audioQueue,           \* part_001:15 sequence of AudioBuffers (each a run sequence)
    isPlaying,            \* app.js:24 / part_001:16
    audioPlaybackNode,    \* app.js:25 / part_001:17   0 or a node id
    ctxState,             \* platform: context id -> "suspended" | "running" | "closed"
    closePending,         \* platform: contexts whose close() promise is not yet resolved
    wsState,              \* platform: socket id -> "open" | "live" (AI session opened) |
                          \*   "ended" (AI session closed, socket open) |
                          \*   "closing" (close() called or the socket has failed,
                          \*   close event to come) | "closed"
    nodes,                \* platform: every source node created, in start order;
                          \*   state: "playing" | "finished" (played to its end) |
                          \*          "stopped" (stop() called) | "silenced" (context closed)
                          \*   ended: "none" | "queued" | "fired" (its ended event)
    nextSerial,           \* serial number of the next sample to arrive
    ingests,              \* number of chunks received so far that carried a sample
    cuts,                 \* one record per interruption / session cleanup handled
    ingestLog,            \* runs of the samples received since the last cut
    acceptedLog,          \* ... of those, the samples that entered the buffer / queue
    offlineIngest,        \* some samples arrived while the context was not running
    turnComplete,         \* the upstream turn is complete and no audio came after
    audit,                \* whether offlineIngest and turnComplete are recorded
    budget,               \* how many sessions, sample-carrying chunks and
                          \*   interruptions / cleanups a behaviour may contain
    server,               \* server.js: one record per connection accepted, see Connection
    pcm,                  \* one audio_data payload byte by byte and the sample values
                          \*   queueAudio makes of it, see QueueAudioBytes
    buttonDisabled,       \* sessionToggleButton.disabled
    mic                   \* the InputProcessor of the microphone worklet

vars == <<policy, isSessionActive, isLoadingSession, audioContext, webSocket,
          clientPlaybackBuffer, audioQueue, isPlaying, audioPlaybackNode,
          ctxState, closePending, wsState, nodes, nextSerial, ingests, cuts,
          ingestLog, acceptedLog, offlineIngest, turnComplete, audit, budget,
          server, pcm, buttonDisabled, mic>>

----------------------------------------------------------------------------
(* Program constants *)

PLAYBACK_SAMPLE_RATE == 24000

PLAYBACK_BUFFER_TARGET_DURATION_MS == 500

MIN_SAMPLES_TO_START_PLAYBACK ==
    (PLAYBACK_SAMPLE_RATE * PLAYBACK_BUFFER_TARGET_DURATION_MS) \div 1000

(* Bounds of the model *)

MaxIngests == 3

MaxCuts == 2

MaxSessions == 1

(* ... and of the behaviours with several sessions *)

MaxStarts == 3

MaxStartsIngests == 1

(* Byte lengths of the audio_data payloads the transport may deliver:      *)
(* empty, odd, 5000 samples (< threshold) and 30000 samples                *)
(* (> 2 x threshold).                                                      *)
ChunkBytes == {0, 9, 10000, 60000}

Policies == {"threshold", "queue"}

----------------------------------------------------------------------------
(* Sample arrays as run sequences *)

Min(a, b) == IF a <= b THEN a ELSE b

Max(a, b) == IF a >= b THEN a ELSE b

RunLen(r) == r[2] - r[1] + 1

RECURSIVE SampleCount(_)
SampleCount(runs) ==
    IF runs = <<>> THEN 0 ELSE RunLen(Head(runs)) + SampleCount(Tail(runs))

(* The samples with serial numbers first .. first + k - 1, as pushed one   *)
(* by one at the tail of an array.                                        *)
NewSamples(first, k) == IF k = 0 THEN <<>> ELSE << <<first, first + k - 1>> >>

(* Array.prototype.splice(0, n): the removed head ...                      *)
RECURSIVE SpliceHead(_, _)
SpliceHead(runs, n) ==
    IF n <= 0 \/ runs = <<>> THEN <<>>
    ELSE LET r == Head(runs) IN
         IF RunLen(r) <= n
         THEN <<r>> \o SpliceHead(Tail(runs), n - RunLen(r))
         ELSE << <<r[1], r[1] + n - 1>> >>

(* ... and what stays in the array.                                        *)
RECURSIVE SpliceRest(_, _)
SpliceRest(runs, n) ==
    IF n <= 0 \/ runs = <<>> THEN runs
    ELSE LET r == Head(runs) IN
         IF RunLen(r) <= n
         THEN SpliceRest(Tail(runs), n - RunLen(r))
         ELSE << <<r[1] + n, r[2]>> >> \o Tail(runs)

(* Canonical form of a sample array: adjacent runs that continue each      *)
(* other are merged, so two encodings of the same array are equal.         *)
RECURSIVE Canon(_)
Canon(runs) ==
    IF Len(runs) <= 1 THEN runs
    ELSE LET a == runs[1]
             b == runs[2]
         IN IF b[1] = a[2] + 1
            THEN Canon(<< <<a[1], b[2]>> >> \o SubSeq(runs, 3, Len(runs)))
            ELSE <<a>> \o Canon(Tail(runs))

----------------------------------------------------------------------------
(* The scheduler state a handler reads and writes, as one record *)

Client ==
    [clientPlaybackBuffer |-> clientPlaybackBuffer,
     audioQueue           |-> audioQueue,
     isPlaying            |-> isPlaying,
     audioPlaybackNode    |-> audioPlaybackNode,
     nodes                |-> nodes]

CtxRunning == audioContext # 0 /\ ctxState[audioContext] = "running"

(* audioContext.createBufferSource() ... audioPlaybackNode.start():        *)
(* a new source node holding `samples`, sounding from now on.              *)
NewNode(samples) ==
    [ctx     |-> audioContext,
     samples |-> samples,
     state   |-> "playing",
     ended   |-> "none",
     cut     |-> Len(cuts)]

(* Whether stop() on node n raises.  A variant first, as the Web Audio     *)
(* implementations that predate AudioWorklet behaved: InvalidStateError    *)
(* also on a node that has already ended or been stopped.                  *)
StopRaisesOnceEnded(ns, n) == ns[n].state # "playing"

(* AudioScheduledSourceNode.stop() raises InvalidStateError only when      *)
(* start() has not been called on the node.  Every node of the program is  *)
(* started by the statement sequence that creates it (app.js:311-321,      *)
(* part_001:238-242), so it is "playing" or further when a handler ends.   *)
StopRaises(ns, n) == ns[n].state = "unstarted"

(* AudioScheduledSourceNode.stop(): a sounding node falls silent and the   *)
(* platform queues its ended event; on a node that already ended or was    *)
(* stopped the call changes nothing (it throws only before start()).       *)
StopNode(ns, n) ==
    IF ns[n].state = "playing"
    THEN [ns EXCEPT ![n].state = "stopped", ![n].ended = "queued"]
    ELSE ns

----------------------------------------------------------------------------
(* src/public/app.js: threshold policy *)

(* Variants of schedulePlayback() that the properties below tell apart     *)
(* from the code's: one that takes the whole pending buffer instead of at  *)
(* most twice the threshold, and one that copies the head of the buffer    *)
(* (slice) instead of removing it (splice).                                *)
SchedulePlaybackUnclamped(S) ==
    IF S.isPlaying \/ ~CtxRunning THEN S
    ELSE IF SampleCount(S.clientPlaybackBuffer) >= MIN_SAMPLES_TO_START_PLAYBACK
    THEN [S EXCEPT !.clientPlaybackBuffer = <<>>,
                   !.isPlaying = TRUE,
                   !.nodes = Append(S.nodes, NewNode(S.clientPlaybackBuffer)),
                   !.audioPlaybackNode = Len(S.nodes) + 1]
    ELSE S

SchedulePlaybackCopying(S) ==
    IF S.isPlaying \/ ~CtxRunning THEN S
    ELSE IF SampleCount(S.clientPlaybackBuffer) >= MIN_SAMPLES_TO_START_PLAYBACK
    THEN LET samplesToPlayCount ==
                 Min(SampleCount(S.clientPlaybackBuffer),
                     2 * MIN_SAMPLES_TO_START_PLAYBACK)
         IN [S EXCEPT !.isPlaying = TRUE,
                      !.nodes = Append(S.nodes,
                                       NewNode(SpliceHead(S.clientPlaybackBuffer,
                                                          samplesToPlayCount))),
                      !.audioPlaybackNode = Len(S.nodes) + 1]
    ELSE S

(* schedulePlayback(), app.js:292-323 *)
SchedulePlayback(S) ==
    IF S.isPlaying \/ ~CtxRunning THEN S
    ELSE IF SampleCount(S.clientPlaybackBuffer) >= MIN_SAMPLES_TO_START_PLAYBACK
    THEN LET samplesToPlayCount ==
                 Min(SampleCount(S.clientPlaybackBuffer),
                     Max(MIN_SAMPLES_TO_START_PLAYBACK,
                         ((PLAYBACK_SAMPLE_RATE * PLAYBACK_BUFFER_TARGET_DURATION_MS)
                              \div 1000) * 2))
             samplesToPlay == SpliceHead(S.clientPlaybackBuffer, samplesToPlayCount)
             rest == SpliceRest(S.clientPlaybackBuffer, samplesToPlayCount)
         IN IF SampleCount(samplesToPlay) = 0
            THEN [S EXCEPT !.clientPlaybackBuffer = rest, !.isPlaying = FALSE]
            ELSE [S EXCEPT !.clientPlaybackBuffer = rest,
                           !.isPlaying = TRUE,
                           !.nodes = Append(S.nodes, NewNode(samplesToPlay)),
                           !.audioPlaybackNode = Len(S.nodes) + 1]
    ELSE S

(* queueAudio(arrayBuffer), app.js:276-290.  new Int16Array(arrayBuffer)   *)
(* throws a RangeError when the byte length is odd; the caller's catch     *)
(* (app.js:178) absorbs it and nothing has been changed by then.           *)
QueueAudio(S, bytes) ==
    IF bytes % 2 = 1 THEN S
    ELSE SchedulePlayback(
             [S EXCEPT !.clientPlaybackBuffer =
                           S.clientPlaybackBuffer \o NewSamples(nextSerial, bytes \div 2)])

(* audioPlaybackNode.onended, app.js:316-319 *)
OnEndedHandler(S) == SchedulePlayback([S EXCEPT !.isPlaying = FALSE])

(* A variant of the interruption branch that stops the tracked node but    *)
(* keeps the pending samples.                                              *)
InterruptionHandlerKeepingBuffer(S) ==
    LET S1 == IF S.audioPlaybackNode # 0
              THEN [S EXCEPT !.nodes = StopNode(S.nodes, S.audioPlaybackNode),
                             !.audioPlaybackNode = 0]
              ELSE S
    IN [S1 EXCEPT !.isPlaying = FALSE]

(* webSocket.onmessage, branch message.type === 'interruption',            *)
(* app.js:168-177.  An exception of stop() leaves the branch for the catch *)
(* at app.js:178-180, which logs it: the statements after stop() are not   *)
(* executed.                                                               *)
InterruptionHandler(S) ==
    IF S.audioPlaybackNode # 0 /\ StopRaises(S.nodes, S.audioPlaybackNode)
    THEN S
    ELSE LET S1 == IF S.audioPlaybackNode # 0
                   THEN [S EXCEPT !.nodes = StopNode(S.nodes, S.audioPlaybackNode),
                                  !.audioPlaybackNode = 0]
                   ELSE S
         IN [S1 EXCEPT !.clientPlaybackBuffer = <<>>, !.isPlaying = FALSE]

----------------------------------------------------------------------------
(* src/unnamed/part_001: queue policy (the earlier client) *)

(* playNextInQueue(), part_001:231-243 *)
PlayNextInQueue(S) ==
    IF S.audioQueue = <<>> \/ ~CtxRunning
    THEN [S EXCEPT !.isPlaying = FALSE]
    ELSE [S EXCEPT !.isPlaying = TRUE,
                   !.audioQueue = Tail(S.audioQueue),
                   !.nodes = Append(S.nodes, NewNode(Head(S.audioQueue))),
                   !.audioPlaybackNode = Len(S.nodes) + 1]

(* queueAudio(arrayBuffer), part_001:210-229.  An odd byte length throws   *)
(* in new Int16Array; createBuffer(1, 0, rate) throws NotSupportedError    *)
(* for an empty chunk; both are absorbed by the caller's catch             *)
(* (part_001:96) before anything is changed.                               *)
QueueAudioLegacy(S, bytes) ==
    IF bytes % 2 = 1 THEN S
    ELSE IF CtxRunning
    THEN IF bytes \div 2 = 0 THEN S
         ELSE LET S1 == [S EXCEPT !.audioQueue =
                             Append(S.audioQueue, NewSamples(nextSerial, bytes \div 2))]
              IN IF ~S1.isPlaying THEN PlayNextInQueue(S1) ELSE S1
    ELSE S

----------------------------------------------------------------------------
(* Both clients *)

(* endSessionCleanup(), playback part: app.js:225-232, part_001:155-162.   *)
(* Nothing in the function catches an exception of stop(): it would leave  *)
(* the function at once.                                                   *)
CleanupPlayback(S) ==
    IF S.audioPlaybackNode # 0 /\ StopRaises(S.nodes, S.audioPlaybackNode)
    THEN S
    ELSE
    LET S1 == IF S.audioPlaybackNode # 0
              THEN [S EXCEPT !.nodes = StopNode(S.nodes, S.audioPlaybackNode),
                             !.audioPlaybackNode = 0]
              ELSE S
    IN [S1 EXCEPT !.clientPlaybackBuffer = <<>>,
                  !.audioQueue = <<>>,
                  !.isPlaying = FALSE]

(* The handler's writes become the next state. *)
Commit(S) ==
    /\ clientPlaybackBuffer' = S.clientPlaybackBuffer
    /\ audioQueue' = S.audioQueue
    /\ isPlaying' = S.isPlaying
    /\ audioPlaybackNode' = S.audioPlaybackNode
    /\ nodes' = S.nodes

(* The number of 16-bit samples a payload of `bytes` bytes carries, when   *)
(* it can be viewed as an Int16Array at all (even length).                 *)
Decoded(bytes) == IF bytes % 2 = 1 THEN 0 ELSE bytes \div 2

(* What is recorded of an interruption or session cleanup: the serial of   *)
(* the next sample to arrive, the number of pending samples it found, the  *)
(* node it sent stop() to (0: none), whether that stop() raised, and, for   *)
(* a session cleanup, the audio context it called close() on (0: none).    *)
Cut(kind) ==
    [kind    |-> kind,
     serial  |-> nextSerial,
     pending |-> SampleCount(clientPlaybackBuffer),
     node    |-> audioPlaybackNode,
     raised  |-> audioPlaybackNode # 0 /\ StopRaises(nodes, audioPlaybackNode),
     closed  |-> IF /\ kind = "sessionEnd"
                    /\ ~(audioPlaybackNode # 0 /\ StopRaises(nodes, audioPlaybackNode))
                    /\ audioContext # 0
                    /\ ctxState[audioContext] # "closed"
                 THEN audioContext ELSE 0]

Sockets == 1 .. Len(wsState)

Contexts == 1 .. Len(ctxState)

NodeIds == 1 .. Len(nodes)

----------------------------------------------------------------------------
(* No payload is looked at byte by byte. *)
NoPayload == pcm = [payload |-> <<>>, buffer |-> <<>>, calls |-> 0, raised |-> FALSE]

(* input-processor.js (app.js:326-328) *)
TARGET_SAMPLE_RATE == 16000
PROCESSOR_BUFFER_SIZE == 512

(* new InputProcessor(options) (app.js:331-343).  The samples captured     *)
(* are numbered 0, 1, 2, ... in the order of arrival; this.buffer holds    *)
(* the `len` samples from number `from` on.  `captured` counts the samples *)
(* handed to process(), `calls` its calls, and `posted` lists the messages *)
(* given to port.postMessage: the block of `input` samples from number     *)
(* `from` on that was resampled, and the number of 16-bit samples sent.    *)
NewInputProcessor(rate) ==
    [inputSampleRate |-> IF rate = 0 THEN 48000 ELSE rate,
     buffer |-> [from |-> 0, len |-> 0],
     totalSamplesCollected |-> 0,
     captured |-> 0,
     calls |-> 0,
     posted |-> <<>>]

\* No processor is capturing: the one of a 48 kHz context, never called.
NoCapture == mic = NewInputProcessor(48000)

(* State after the script has loaded: app.js:6-25, part_001:5-17 *)
Loaded ==
    /\ policy \in Policies
    /\ isSessionActive = FALSE
    /\ isLoadingSession = FALSE
    /\ audioContext = 0
    /\ webSocket = 0
    /\ clientPlaybackBuffer = <<>>
    /\ audioQueue = <<>>
    /\ isPlaying = FALSE
    /\ audioPlaybackNode = 0
    /\ ctxState = <<>>
    /\ closePending = {}
    /\ wsState = <<>>
    /\ nodes = <<>>
    /\ nextSerial = 1
    /\ ingests = 0
    /\ cuts = <<>>
    /\ ingestLog = <<>>
    /\ acceptedLog = <<>>
    /\ offlineIngest = FALSE
    /\ turnComplete = FALSE
    /\ server = <<>>
    /\ buttonDisabled = FALSE

Init ==
    /\ Loaded
    /\ NoPayload
    /\ NoCapture
    /\ audit = FALSE
    /\ budget = [sessions |-> MaxSessions, ingests |-> MaxIngests, cuts |-> MaxCuts]

(* Click on the session button with no session active or loading           *)
(* (app.js:59-71) and startSession() up to the socket's handlers being     *)
(* installed (app.js:73-191; part_001:22-115), microphone and worklet      *)
(* granted.  A new AudioContext is created suspended and is set running    *)
(* by the platform afterwards.                                             *)
StartSession ==
    /\ ~isLoadingSession
    /\ ~isSessionActive
    /\ Len(ctxState) < budget.sessions
    /\ isLoadingSession' = TRUE
    /\ buttonDisabled' = TRUE
    /\ ctxState' = Append(ctxState, "suspended")
    /\ audioContext' = Len(ctxState) + 1
    /\ wsState' = Append(wsState, "open")
    /\ webSocket' = Len(wsState) + 1
    /\ UNCHANGED <<policy, audit, budget, server, pcm, mic, isSessionActive, clientPlaybackBuffer, audioQueue,
                   isPlaying, audioPlaybackNode, closePending, nodes, nextSerial,
                   ingests, cuts, ingestLog, acceptedLog,
                   offlineIngest, turnComplete>>

(* Platform: the rendering thread of context c has started. *)
ContextRunning(c) ==
    /\ ctxState[c] = "suspended"
    /\ c \notin closePending
    /\ ctxState' = [ctxState EXCEPT ![c] = "running"]
    /\ UNCHANGED <<policy, audit, budget, server, pcm, mic, buttonDisabled, isSessionActive, isLoadingSession, audioContext,
                   webSocket, clientPlaybackBuffer, audioQueue, isPlaying,
                   audioPlaybackNode, closePending, wsState, nodes, nextSerial,
                   ingests, cuts, ingestLog, acceptedLog,
                   offlineIngest, turnComplete>>

(* The 'AI session opened.' handler without its lines 153-154: the        *)
(* session becomes active while the loading flag and the button stay.      *)
WsStatusOpenedKeepingLoading(s) ==
    /\ wsState[s] = "open"
    /\ wsState' = [wsState EXCEPT ![s] = "live"]
    /\ isSessionActive' = TRUE
    /\ UNCHANGED <<policy, audit, budget, server, pcm, mic, buttonDisabled, isLoadingSession,
                   audioContext, webSocket, clientPlaybackBuffer,
                   audioQueue, isPlaying, audioPlaybackNode, ctxState,
                   closePending, nodes, nextSerial, ingests, cuts, ingestLog, acceptedLog,
                   offlineIngest, turnComplete>>

(* webSocket.onmessage, status 'AI session opened.' (app.js:147-159;       *)
(* server.js:63-67 sends it once, when the upstream session opens).        *)
WsStatusOpened(s) ==
    /\ wsState[s] = "open"
    /\ wsState' = [wsState EXCEPT ![s] = "live"]
    /\ isSessionActive' = TRUE
    /\ isLoadingSession' = FALSE
    /\ buttonDisabled' = FALSE
    /\ UNCHANGED <<policy, audit, budget, server, pcm, mic, audioContext, webSocket, clientPlaybackBuffer,
                   audioQueue, isPlaying, audioPlaybackNode, ctxState,
                   closePending, nodes, nextSerial, ingests, cuts, ingestLog, acceptedLog,
                   offlineIngest, turnComplete>>

(* webSocket.onmessage, message.type === 'audio_data' (app.js:144-146,     *)
(* part_001:74-78): a chunk of `bytes` bytes is ingested.                  *)
WsAudioData(s, bytes) ==
    /\ wsState[s] = "live"
    /\ Decoded(bytes) > 0 => ingests < budget.ingests
    /\ ingests' = IF Decoded(bytes) > 0 THEN ingests + 1 ELSE ingests
    /\ Commit(IF policy = "threshold" THEN QueueAudio(Client, bytes)
                                       ELSE QueueAudioLegacy(Client, bytes))
    /\ nextSerial' = nextSerial + Decoded(bytes)
    /\ ingestLog' = ingestLog \o NewSamples(nextSerial, Decoded(bytes))
    /\ acceptedLog' = IF policy = "queue" /\ ~CtxRunning
                      THEN acceptedLog
                      ELSE acceptedLog \o NewSamples(nextSerial, Decoded(bytes))
    /\ offlineIngest' =
           (offlineIngest \/ (audit /\ Decoded(bytes) > 0 /\ ~CtxRunning))
    /\ turnComplete' = (turnComplete /\ Decoded(bytes) = 0)
    /\ UNCHANGED <<policy, audit, budget, server, pcm, mic, buttonDisabled, isSessionActive, isLoadingSession, audioContext,
                   webSocket, ctxState, closePending, wsState, cuts>>

(* The upstream service reports serverContent.turnComplete on the session  *)
(* of socket s.  The server logs it and sends nothing to the client        *)
(* (server.js:81-83, part_003:69-71); the client has no handler for it.    *)
UpstreamTurnComplete(s) ==
    /\ audit
    /\ wsState[s] = "live"
    /\ ~turnComplete
    /\ turnComplete' = TRUE
    /\ UNCHANGED <<policy, audit, budget, server, pcm, mic, buttonDisabled, isSessionActive, isLoadingSession, audioContext,
                   webSocket, clientPlaybackBuffer, audioQueue, isPlaying,
                   audioPlaybackNode, ctxState, closePending, wsState, nodes,
                   nextSerial, ingests, cuts, ingestLog, acceptedLog,
                   offlineIngest>>

(* webSocket.onmessage, message.type === 'interruption' (app.js:168-177).  *)
(* Only server.js sends it (server.js:84-87); the earlier server           *)
(* (part_003:72-74) only logs, and the earlier client has no branch for it.*)
WsInterruption(s) ==
    /\ policy = "threshold"
    /\ wsState[s] = "live"
    /\ Len(cuts) < budget.cuts
    /\ Commit(InterruptionHandler(Client))
    /\ cuts' = Append(cuts, Cut("interruption"))
    /\ ingestLog' = <<>>
    /\ acceptedLog' = <<>>
    /\ UNCHANGED <<policy, audit, budget, server, pcm, mic, buttonDisabled, isSessionActive, isLoadingSession, audioContext,
                   webSocket, ctxState, closePending, wsState, nextSerial, ingests,
                   offlineIngest, turnComplete>>

(* endSessionCleanup(), app.js:207-250, part_001:139-178 *)
EndSessionCleanup ==
    /\ Commit(CleanupPlayback(Client))
    /\ IF audioPlaybackNode # 0 /\ StopRaises(nodes, audioPlaybackNode)
       THEN UNCHANGED <<closePending, isSessionActive, isLoadingSession, buttonDisabled>>
       ELSE /\ closePending' =
                  IF audioContext # 0 /\ ctxState[audioContext] # "closed"
                  THEN closePending \cup {audioContext}
                  ELSE closePending
            /\ isSessionActive' = FALSE
            /\ isLoadingSession' = FALSE
            /\ buttonDisabled' = FALSE
    /\ cuts' = Append(cuts, Cut("sessionEnd"))
    /\ ingestLog' = <<>>
    /\ acceptedLog' = <<>>
    /\ UNCHANGED <<policy, audit, budget, server, pcm, mic, audioContext, webSocket, ctxState, nextSerial, ingests,
                   offlineIngest, turnComplete>>

(* webSocket.onclose (app.js:188-191, part_001:109-115): the socket has    *)
(* closed, by endSession() (app.js:199-205), by the server or by the       *)
(* network.                                                                *)
WsClose(s) ==
    /\ wsState[s] # "closed"
    /\ Len(cuts) < budget.cuts
    /\ wsState' = [wsState EXCEPT ![s] = "closed"]
    /\ EndSessionCleanup

(* webSocket.onmessage, status 'AI session closed.' (app.js:160-164): the  *)
(* server sends it from the upstream session's onclose (server.js:102-106),*)
(* of a session that had opened, and that session delivers nothing more    *)
(* afterwards; the socket itself stays open.  The cleanup runs only when   *)
(* a session is marked active.                                             *)
WsStatusClosed(s) ==
    /\ wsState[s] = "live"
    /\ wsState' = [wsState EXCEPT ![s] = "ended"]
    /\ IF isSessionActive
       THEN /\ Len(cuts) < budget.cuts
            /\ EndSessionCleanup
       ELSE UNCHANGED <<policy, audit, budget, server, pcm, mic, buttonDisabled, isSessionActive, isLoadingSession,
                        audioContext, webSocket, clientPlaybackBuffer, audioQueue,
                        isPlaying, audioPlaybackNode, ctxState, closePending,
                        nodes, nextSerial, ingests, cuts, ingestLog, acceptedLog,
                        offlineIngest, turnComplete>>

(* endSession(), app.js:199-205: close() on the socket the global          *)
(* webSocket refers to when it is open, whose close event then runs the    *)
(* cleanup; the cleanup at once otherwise.  After close() the socket       *)
(* delivers no further message.                                            *)
EndSession ==
    IF webSocket # 0 /\ wsState[webSocket] \in {"open", "live", "ended"}
    THEN /\ wsState' = [wsState EXCEPT ![webSocket] = "closing"]
         /\ UNCHANGED <<policy, audit, budget, server, pcm, mic, buttonDisabled, isSessionActive, isLoadingSession,
                        audioContext, webSocket, clientPlaybackBuffer, audioQueue,
                        isPlaying, audioPlaybackNode, ctxState, closePending,
                        nodes, nextSerial, ingests, cuts, ingestLog, acceptedLog,
                        offlineIngest, turnComplete>>
    ELSE /\ Len(cuts) < budget.cuts
         /\ EndSessionCleanup
         /\ UNCHANGED wsState

(* webSocket.onerror (app.js:183-186): the socket has failed; the cleanup  *)
(* runs, and the platform fires the close event of the socket next.        *)
WsError(s) ==
    /\ wsState[s] \in {"open", "live", "ended"}
    /\ Len(cuts) < budget.cuts
    /\ wsState' = [wsState EXCEPT ![s] = "closing"]
    /\ EndSessionCleanup

(* webSocket.onmessage, message.type === 'error' (app.js:165-167): the     *)
(* server sends it from the upstream session's onerror, from an upstream   *)
(* error message and from the catch of the connect (server.js:88-117).     *)
WsErrorMessage(s) ==
    /\ wsState[s] \in {"open", "live", "ended"}
    /\ EndSession

(* Click on the session button, app.js:59-71, while a session is loading   *)
(* (the handler returns) or active (endSession()).  The remaining branch,  *)
(* startSession(), is the action StartSession.                             *)
SessionToggleClick ==
    /\ isLoadingSession \/ isSessionActive
    /\ IF isLoadingSession
       THEN UNCHANGED vars
       ELSE EndSession

(* audioContext.close().then(...) of context c resolves (app.js:234-239):  *)
(* the context is closed, its nodes are silent, and the callback writes    *)
(* null to the global audioContext.  Whether the platform still reports    *)
(* ended for the nodes it silenced is left open.                           *)
ContextClosed(c) ==
    /\ c \in closePending
    /\ closePending' = closePending \ {c}
    /\ ctxState' = [ctxState EXCEPT ![c] = "closed"]
    /\ audioContext' = 0
    /\ \E report \in {"none", "queued"} :
           nodes' = [n \in NodeIds |->
                        IF nodes[n].ctx = c /\ nodes[n].state = "playing"
                        THEN [nodes[n] EXCEPT !.state = "silenced", !.ended = report]
                        ELSE nodes[n]]
    /\ UNCHANGED <<policy, audit, budget, server, pcm, mic, buttonDisabled, isSessionActive, isLoadingSession, webSocket,
                   clientPlaybackBuffer, audioQueue, isPlaying, audioPlaybackNode,
                   wsState, nextSerial, ingests, cuts, ingestLog, acceptedLog,
                   offlineIngest, turnComplete>>

(* Platform: node n has played its whole buffer; its ended event is queued.*)
NodeFinished(n) ==
    /\ nodes[n].state = "playing"
    /\ nodes' = [nodes EXCEPT ![n].state = "finished", ![n].ended = "queued"]
    /\ UNCHANGED <<policy, audit, budget, server, pcm, mic, buttonDisabled, isSessionActive, isLoadingSession, audioContext,
                   webSocket, clientPlaybackBuffer, audioQueue, isPlaying,
                   audioPlaybackNode, ctxState, closePending, wsState,
                   nextSerial, ingests, cuts, ingestLog, acceptedLog,
                   offlineIngest, turnComplete>>

(* The queued ended event of node n is dispatched: its onended handler     *)
(* runs (app.js:316-319; part_001:241).                                    *)
OnEnded(n) ==
    /\ nodes[n].ended = "queued"
    /\ LET S == [Client EXCEPT !.nodes[n].ended = "fired"]
       IN Commit(IF policy = "threshold" THEN OnEndedHandler(S)
                                         ELSE PlayNextInQueue(S))
    /\ UNCHANGED <<policy, audit, budget, server, pcm, mic, buttonDisabled, isSessionActive, isLoadingSession, audioContext,
                   webSocket, ctxState, closePending, wsState, nextSerial,
                   ingests, cuts, ingestLog, acceptedLog,
                   offlineIngest, turnComplete>>

Next ==
    \/ StartSession
    \/ \E c \in Contexts : ContextRunning(c)
    \/ \E s \in Sockets : WsStatusOpened(s)
    \/ \E s \in Sockets, bytes \in ChunkBytes : WsAudioData(s, bytes)
    \/ \E s \in Sockets : WsInterruption(s)
    \/ \E s \in Sockets : WsClose(s)
    \/ \E c \in Contexts : ContextClosed(c)
    \/ \E n \in NodeIds : NodeFinished(n)
    \/ \E n \in NodeIds : OnEnded(n)

Spec == Init /\ [][Next]_vars

(* The same program with the two audit records kept, and the upstream       *)
(* turn-complete signal among the events.                                  *)
AuditInit ==
    /\ Loaded
    /\ NoPayload
    /\ NoCapture
    /\ audit = TRUE
    /\ budget = [sessions |-> MaxSessions, ingests |-> MaxIngests, cuts |-> MaxCuts]

AuditNext ==
    \/ Next
    \/ \E s \in Sockets : UpstreamTurnComplete(s)

AuditSpec == AuditInit /\ [][AuditNext]_vars

(* The same program over several sessions, with the server's report that   *)
(* the upstream session has closed among the events.                       *)
StartsInit ==
    /\ Loaded
    /\ NoPayload
    /\ NoCapture
    /\ audit = FALSE
    /\ budget = [sessions |-> MaxStarts, ingests |-> MaxStartsIngests, cuts |-> MaxCuts]

StartsNext ==
    \/ Next
    \/ \E s \in Sockets : WsStatusClosed(s)
    \/ \E s \in Sockets : WsErrorMessage(s)
    \/ \E s \in Sockets : WsError(s)
    \/ SessionToggleClick

StartsSpec == StartsInit /\ [][StartsNext]_vars

----------------------------------------------------------------------------
(* Vocabulary of the properties *)

Sounding == {n \in NodeIds : nodes[n].state = "playing"}

Pending == SampleCount(clientPlaybackBuffer)

(* The handler that ran in a step, read off what the step recorded. *)
InterruptionStep ==
    /\ Len(cuts') = Len(cuts) + 1
    /\ cuts'[Len(cuts')].kind = "interruption"

SampleIngestStep == ingests' = ingests + 1

(* onended of a node that ended by playing its whole buffer ... *)
NaturalEndedStep(n) ==
    /\ nodes[n].state = "finished"
    /\ nodes[n].ended = "queued"
    /\ nodes'[n].ended = "fired"

(* ... and of a node that an interruption or a session cleanup stopped. *)
LateEndedStep(n) ==
    /\ nodes[n].state = "stopped"
    /\ nodes[n].ended = "queued"
    /\ nodes'[n].ended = "fired"

(* The step created exactly one source node, holding `samples`. *)
MaterializedOne(samples) ==
    /\ Len(nodes') = Len(nodes) + 1
    /\ Canon(nodes'[Len(nodes')].samples) = Canon(samples)

MaterializedNone == Len(nodes') = Len(nodes)

RECURSIVE UnitsFrom(_)
(* The samples of the units started since the last cut, from node n on, in  *)
(* the order the units were started.                                       *)
UnitsFrom(n) ==
    IF n > Len(nodes) THEN <<>>
    ELSE (IF nodes[n].cut = Len(cuts) THEN nodes[n].samples ELSE <<>>)
             \o UnitsFrom(n + 1)

IsPrefix(units, log) ==
    Canon(units) = Canon(SpliceHead(log, SampleCount(units)))

RECURSIVE PlayedFrom(_)
(* The number of samples of the units that were played to their end. *)
PlayedFrom(n) ==
    IF n > Len(nodes) THEN 0
    ELSE (IF nodes[n].state = "finished" THEN SampleCount(nodes[n].samples) ELSE 0)
             + PlayedFrom(n + 1)

(* Nothing sounds and no ended event is waiting to be dispatched. *)
Quiescent ==
    \A n \in NodeIds : nodes[n].state # "playing" /\ nodes[n].ended # "queued"

----------------------------------------------------------------------------
(* C1.  Once an interruption has been processed, no unit started before it *)
(* is still sounding, and no sample that arrived before it is in a unit    *)
(* started after it.                                                       *)
C1_NothingSurvivesInterruption ==
    \A i \in 1 .. Len(cuts) :
        cuts[i].kind = "interruption" =>
            \A n \in NodeIds :
                /\ nodes[n].cut < i => nodes[n].state # "playing"
                /\ nodes[n].cut >= i =>
                       \A k \in 1 .. Len(nodes[n].samples) :
                           nodes[n].samples[k][1] >= cuts[i].serial

(* C2.  The interruption handler, run in any state, leaves no tracked unit *)
(* (the unit it tracked no longer sounds), an empty pending buffer and     *)
(* isPlaying false.                                                        *)
C2_InterruptionClears ==
    [][InterruptionStep =>
           /\ audioPlaybackNode' = 0
           /\ audioPlaybackNode # 0 => nodes'[audioPlaybackNode].state # "playing"
           /\ clientPlaybackBuffer' = <<>>
           /\ isPlaying' = FALSE]_vars

(* An interruption found a sounding tracked unit and pending samples, and  *)
(* has stopped the one and discarded the others.                           *)
C2_Witness ==
    /\ cuts # <<>>
    /\ LET c == cuts[Len(cuts)] IN
           /\ c.kind = "interruption"
           /\ c.pending > 0
           /\ c.node # 0
           /\ nodes[c.node].state = "stopped"
           /\ nodes[c.node].ended = "queued"
    /\ audioPlaybackNode = 0
    /\ clientPlaybackBuffer = <<>>
    /\ ~isPlaying

(* C3.  The ended notification of a unit that an interruption or session   *)
(* end force-stopped is a no-op: isPlaying and the pending buffer are      *)
(* unchanged and no unit is materialized.                                  *)
C3_LateEndedIsNoOp ==
    [][\A n \in NodeIds :
           LateEndedStep(n) =>
               /\ isPlaying' = isPlaying
               /\ clientPlaybackBuffer' = clientPlaybackBuffer
               /\ MaterializedNone]_vars

(* C4.  At most one playback unit is sounding. *)
C4_AtMostOneSounding == Cardinality(Sounding) <= 1

(* C5.  With no interruption or session end and the device running at     *)
(* every arrival, once nothing sounds and no ended event is outstanding,   *)
(* the units played hold exactly the samples ingested.                     *)
C5_AllIngestedPlayed ==
    (/\ cuts = <<>>
     /\ ~offlineIngest
     /\ CtxRunning
     /\ Quiescent)
        => PlayedFrom(1) = nextSerial - 1

(* C6.  Threshold policy, device running, scheduler idle: a turn-complete  *)
(* signal that finds a nonzero number of pending samples below the         *)
(* threshold materializes one unit holding all of them and leaves the      *)
(* pending buffer empty.                                                   *)
C6_TurnCompleteFlushes ==
    [][(/\ ~turnComplete /\ turnComplete'
        /\ policy = "threshold"
        /\ CtxRunning
        /\ ~isPlaying
        /\ Sounding = {}
        /\ 0 < Pending
        /\ Pending < MIN_SAMPLES_TO_START_PLAYBACK)
           => /\ MaterializedOne(clientPlaybackBuffer)
              /\ clientPlaybackBuffer' = <<>>]_vars

(* C7.  Threshold policy, device running: when a unit has ended naturally  *)
(* and the pending buffer is not empty, its ended notification schedules   *)
(* the next unit, of at most twice the threshold, from the head of the     *)
(* buffer, whatever the number of pending samples.                         *)
C7_EndedSchedulesNext ==
    [][\A n \in NodeIds :
           (/\ NaturalEndedStep(n)
            /\ policy = "threshold"
            /\ CtxRunning
            /\ Sounding = {}
            /\ Pending > 0)
               => /\ MaterializedOne(
                         SpliceHead(clientPlaybackBuffer,
                                    Min(Pending, 2 * MIN_SAMPLES_TO_START_PLAYBACK)))
                  /\ SampleCount(clientPlaybackBuffer') =
                         Pending - Min(Pending, 2 * MIN_SAMPLES_TO_START_PLAYBACK)]_vars

(* C8.  Threshold policy, device running: while samples are pending and    *)
(* nothing sounds, a deferred callback is outstanding that will run        *)
(* without new data.  The only deferred callbacks the scheduler registers  *)
(* are the onended handlers of its nodes.                                  *)
C8_PendingNeverStranded ==
    (/\ policy = "threshold"
     /\ CtxRunning
     /\ Pending > 0
     /\ Sounding = {})
        => \E n \in NodeIds : nodes[n].ended = "queued"

(* The threshold gate at an arrival of samples, for a given reading of     *)
(* "idle": with L the pending count after the arrival, below the threshold *)
(* nothing is materialized and the samples stay pending; from the          *)
(* threshold on, exactly one unit takes min(L, max(T, 2T)) samples from    *)
(* the head and the others stay pending.                                   *)
ThresholdGate(idle) ==
    (/\ SampleIngestStep
     /\ policy = "threshold"
     /\ CtxRunning
     /\ idle)
        => LET T == MIN_SAMPLES_TO_START_PLAYBACK
               arrived == NewSamples(nextSerial, nextSerial' - nextSerial)
               all == clientPlaybackBuffer \o arrived
               L == SampleCount(all)
               take == Min(L, Max(T, 2 * T))
           IN /\ T = 12000
              /\ IF L < T
                 THEN /\ MaterializedNone
                      /\ Canon(clientPlaybackBuffer') = Canon(all)
                 ELSE /\ MaterializedOne(SpliceHead(all, take))
                      /\ SampleCount(nodes'[Len(nodes')].samples) = take
                      /\ Canon(clientPlaybackBuffer') = Canon(SpliceRest(all, take))
                      /\ SampleCount(clientPlaybackBuffer') = L - take

(* C9.  Threshold policy with T = 12000, device running and isPlaying      *)
(* false: an arrival that leaves fewer than T samples pending materializes *)
(* nothing; an arrival that brings the pending count L to T or more        *)
(* materializes exactly one unit of min(L, max(T, 2T)) samples from the    *)
(* head and leaves the other L - min(L, 2T) samples pending.               *)
C9_ThresholdGate == [][ThresholdGate(~isPlaying)]_vars

(* C9 as stated: the same, whenever no unit is sounding. *)
C9_ThresholdGateWhenSilent == [][ThresholdGate(Sounding = {})]_vars

(* Three arrivals of 5000 samples: nothing after the first two, then one   *)
(* unit of 15000 samples and an empty pending buffer.                      *)
C9_Witness ==
    /\ policy = "threshold"
    /\ ingests = 3
    /\ Len(nodes) = 1
    /\ Canon(nodes[1].samples) = << <<1, 15000>> >>
    /\ Len(nodes[1].samples) = 3
    /\ clientPlaybackBuffer = <<>>

(* C10.  The samples of the units started since the last interruption or   *)
(* session end, concatenated in start order, are a prefix of the samples   *)
(* the client accepted since then, in arrival order.                       *)
C10_UnitsPrefixOfAccepted == IsPrefix(UnitsFrom(1), acceptedLog)

(* C10 as stated: ... a prefix of all the samples that arrived since then. *)
C10_UnitsPrefixOfIngested == IsPrefix(UnitsFrom(1), ingestLog)

(* After an interruption, a unit whose samples come from two arrivals has  *)
(* been started, and samples are still pending behind it.                  *)
C10_Witness ==
    /\ cuts # <<>>
    /\ cuts[Len(cuts)].kind = "interruption"
    /\ clientPlaybackBuffer # <<>>
    /\ \E n \in NodeIds :
           /\ nodes[n].cut = Len(cuts)
           /\ Len(nodes[n].samples) >= 2

----------------------------------------------------------------------------
(* Interruptions and session ends *)

(* The step handled an interruption or ran endSessionCleanup(). *)
CutStep == Len(cuts') = Len(cuts) + 1

SessionEndStep ==
    /\ CutStep
    /\ cuts'[Len(cuts')].kind = "sessionEnd"

(* endSessionCleanup() has run and no session has been started since. *)
Terminal ==
    /\ cuts # <<>>
    /\ cuts[Len(cuts)].kind = "sessionEnd"
    /\ ~isSessionActive
    /\ ~isLoadingSession

C12_EndedUnitNotStoppedAgain ==
    [][CutStep =>
           LET n == cuts'[Len(cuts')].node
           IN n # 0 => ~(nodes[n].state = "finished" /\ nodes[n].ended = "fired")]_vars

(* C13.  An interruption leaves no unit sounding, and the first arrival    *)
(* after it that brings the pending samples to the threshold starts a unit *)
(* in that same step, whatever became of the units that were cancelled.    *)
C13_InterruptionStopsAllAndRestartsNow ==
    [][/\ InterruptionStep => Sounding' = {}
       /\ (/\ SampleIngestStep
           /\ policy = "threshold"
           /\ CtxRunning
           /\ cuts # <<>>
           /\ cuts[Len(cuts)].kind = "interruption"
           /\ \A n \in NodeIds : nodes[n].cut < Len(cuts)
           /\ Pending + (nextSerial' - nextSerial) >= MIN_SAMPLES_TO_START_PLAYBACK)
              => /\ Len(nodes') = Len(nodes) + 1
                 /\ nodes'[Len(nodes')].state = "playing"]_vars

(* C14.  endSessionCleanup() stops the tracked unit, empties the pending   *)
(* buffer, clears isPlaying and closes the audio context; and from then    *)
(* until a session is started no step materializes a unit.                 *)
C14_SessionEndIsTerminal ==
    [][/\ SessionEndStep =>
              /\ audioPlaybackNode' = 0
              /\ audioPlaybackNode # 0 => nodes'[audioPlaybackNode].state # "playing"
              /\ clientPlaybackBuffer' = <<>>
              /\ audioQueue' = <<>>
              /\ isPlaying' = FALSE
              /\ (audioContext # 0 /\ ctxState[audioContext] # "closed")
                     => audioContext \in closePending'
       /\ Terminal => MaterializedNone]_vars

(* C15.  An arrival of samples while there is no running audio context     *)
(* leaves the length of the pending buffer and of the queue unchanged.     *)
C15_DroppedWhenNotRunning ==
    [][(SampleIngestStep /\ ~CtxRunning)
           => /\ Pending' = Pending
              /\ Len(audioQueue') = Len(audioQueue)]_vars

----------------------------------------------------------------------------
(* Ingest *)

RECURSIVE MaterializedFrom(_)
(* The number of samples in the units created so far, from node n on. *)
MaterializedFrom(n) ==
    IF n > Len(nodes) THEN 0
    ELSE SampleCount(nodes[n].samples) + MaterializedFrom(n + 1)

(* The samples the client holds or has handed to the device. *)
Held == Pending + MaterializedFrom(1)

(* A payload of 2k+1 bytes, and its k. *)
OddChunk == CHOOSE b \in ChunkBytes : b % 2 = 1

OddChunkSamples == (OddChunk - 1) \div 2

(* C16.  An arrival of 2k+1 bytes decodes k samples and appends them to    *)
(* the pending buffer: whenever such a payload can arrive, the client      *)
(* holds k samples more after handling it.                                 *)
C16_OddLengthKeepsPairs ==
    \A s \in Sockets :
        (policy = "threshold" /\ wsState[s] = "live")
            => ENABLED (WsAudioData(s, OddChunk) /\ Held' = Held + OddChunkSamples)

(* C17.  An arrival of zero bytes changes neither the number of pending    *)
(* samples nor isPlaying nor the tracked unit, and materializes no unit.   *)
C17_EmptyChunkChangesNothing ==
    [][\A s \in Sockets :
           WsAudioData(s, 0)
               => /\ Pending' = Pending
                  /\ Len(audioQueue') = Len(audioQueue)
                  /\ isPlaying' = isPlaying
                  /\ audioPlaybackNode' = audioPlaybackNode
                  /\ MaterializedNone]_vars

(* C18.  In the client that plays chunk by chunk, with the audio context   *)
(* running, every arrival of samples becomes a unit of its own in the step *)
(* that ingests it, so that a chunk that arrives while the previous unit   *)
(* sounds is already handed to the device, to start at that unit's end,    *)
(* when that unit ends.                                                    *)
C18_ChunkIsUnitAtIngest ==
    [][(SampleIngestStep /\ policy = "queue" /\ CtxRunning)
           => MaterializedOne(NewSamples(nextSerial, nextSerial' - nextSerial))]_vars

\* ---------------------------------------------------------------------------
\* The relay server (src/server.js).  Each accepted WebSocket connection runs
\* the async handler of wss.on('connection'); a connection is one record.
\*
\*   pc                "connect": the handler is suspended at
\*                       `await ai.live.connect(...)`; no listener of the
\*                       client socket is registered yet
\*                     "serving": the await returned, liveSession is assigned
\*                       and ws.on('message' | 'close' | 'error') are registered
\*                     "failed":  the catch block ran and the handler returned
\*   ws                the client socket: "open" | "closed"
\*   upstream          the AI session at the service:
\*                       "connecting" | "open" | "errored" (its socket has
\*                       failed, its close follows) | "closed" | "failed"
\*   liveSession       TRUE once the variable liveSession holds the session
\*   isLiveSessionOpen the flag of the same name
\*   closeRequested    liveSession.close() has been called
\*   sent              the messages handed to ws.send, in order, by kind
\*   forwarded         number of calls of liveSession.sendRealtimeInput
\* ---------------------------------------------------------------------------
MaxConnections == 1

\* Messages sent to the client before the upstream messages stop, and client
\* audio chunks forwarded, per connection.
MaxSent == 2

MaxForwards == 2

\* A message of the upstream session, by the fields onmessage looks at:
\* message.data (audio of the model turn), serverContent.turnComplete,
\* serverContent.interrupted and message.error.
UpstreamMessages ==
    [data : BOOLEAN, turnComplete : BOOLEAN, interrupted : BOOLEAN, error : BOOLEAN]

HasServerContent(m) == m.data \/ m.turnComplete \/ m.interrupted

ClientKinds == {"audio_chunk", "end_session_ack", "other"}

Connection ==
    [pc |-> "connect", ws |-> "open", upstream |-> "connecting",
     liveSession |-> FALSE, isLiveSessionOpen |-> FALSE,
     closeRequested |-> FALSE, sent |-> <<>>, forwarded |-> 0]

Conns == 1..Len(server)

clientVars ==
    <<policy, isSessionActive, isLoadingSession, audioContext, webSocket,
      clientPlaybackBuffer, audioQueue, isPlaying, audioPlaybackNode,
      ctxState, closePending, wsState, nodes, nextSerial, ingests, cuts,
      ingestLog, acceptedLog, offlineIngest, turnComplete, audit, budget,
      buttonDisabled>>

\* ws.send(JSON.stringify({type: kind, ...})) on the connection's socket.
Send(conn, kind) == [conn EXCEPT !.sent = Append(@, kind)]

\* if (liveSession) { liveSession.close(); }
CloseLiveSession(conn) ==
    IF conn.liveSession THEN [conn EXCEPT !.closeRequested = TRUE] ELSE conn

\* The timers the handler has armed for a connection: the handler calls
\* neither setTimeout nor setInterval, so there is never one.
PendingTimers(conn) == {}

\* wss.on('connection', async (ws) => { ... liveSession = await
\* ai.live.connect(...): the handler starts and suspends at the await.
Connect ==
    /\ Len(server) < MaxConnections
    /\ server' = Append(server, Connection)
    /\ UNCHANGED <<clientVars, pcm, mic>>

\* The upstream socket opens: callbacks.onopen runs, then the await returns
\* in the same turn of the event loop, liveSession is assigned and the three
\* listeners of the client socket are registered.
UpstreamOpens(c) ==
    /\ server[c].pc = "connect"
    /\ server[c].upstream = "connecting"
    /\ server' = [server EXCEPT ![c] =
                    [Send(@, "status:opened") EXCEPT
                        !.upstream = "open",
                        !.isLiveSessionOpen = TRUE,
                        !.liveSession = TRUE,
                        !.pc = "serving"]]
    /\ UNCHANGED <<clientVars, pcm, mic>>

\* ai.live.connect rejects: catch block sends the error, closes the client
\* socket and returns.
ConnectFails(c) ==
    /\ server[c].pc = "connect"
    /\ server[c].upstream = "connecting"
    /\ server' = [server EXCEPT ![c] =
                    [Send(@, "error") EXCEPT
                        !.upstream = "failed",
                        !.ws = "closed",
                        !.pc = "failed"]]
    /\ UNCHANGED <<clientVars, pcm, mic>>

\* callbacks.onmessage for one upstream message, server.js:68-93: an
\* if / else-if chain on message.data, message.serverContent, message.error.
OnMessage(conn, m) ==
    IF m.data
    THEN Send(conn, "audio_data")
    ELSE IF HasServerContent(m)
    THEN IF m.interrupted THEN Send(conn, "interruption") ELSE conn
    ELSE IF m.error
    THEN Send(conn, "error")
    ELSE conn

UpstreamMessage(c, m) ==
    /\ server[c].upstream = "open"
    /\ Len(server[c].sent) < MaxSent
    /\ server' = [server EXCEPT ![c] = OnMessage(@, m)]
    /\ UNCHANGED <<clientVars, pcm, mic>>

\* callbacks.onerror.
UpstreamError(c) ==
    /\ server[c].upstream = "open"
    /\ server' = [server EXCEPT ![c] =
                    CloseLiveSession(
                        Send([@ EXCEPT !.isLiveSessionOpen = FALSE,
                                       !.upstream = "errored"], "error"))]
    /\ UNCHANGED <<clientVars, pcm, mic>>

\* The upstream session ends, on its own or after liveSession.close():
\* callbacks.onclose.
UpstreamCloses(c) ==
    /\ server[c].upstream \in {"open", "errored"}
    /\ server' = [server EXCEPT ![c] =
                    [Send(@, "status:closed") EXCEPT
                        !.upstream = "closed",
                        !.isLiveSessionOpen = FALSE]]
    /\ UNCHANGED <<clientVars, pcm, mic>>

\* A variant of the handler of ws.on('message') without the check of
\* liveSession and isLiveSessionOpen.
OnClientMessageUnguarded(conn, kind, ok) ==
    CASE kind = "audio_chunk"     -> [conn EXCEPT !.forwarded = @ + 1]
      [] kind = "end_session_ack" -> CloseLiveSession(conn)
      [] OTHER                    -> conn

\* ws.on('message'), server.js:119-158: registered only once the handler is
\* past the await.  A Buffer is handed to sendRealtimeInput, whose
\* synchronous exception is caught and logged (ok = FALSE).
OnClientMessage(conn, kind, ok) ==
    IF conn.liveSession /\ conn.isLiveSessionOpen
    THEN CASE kind = "audio_chunk"     -> [conn EXCEPT !.forwarded = @ + 1]
           [] kind = "end_session_ack" -> CloseLiveSession(conn)
           [] OTHER                    -> conn
    ELSE conn

ClientMessage(c, kind, ok) ==
    /\ server[c].pc = "serving"
    /\ server[c].ws = "open"
    /\ server[c].forwarded < MaxForwards
    /\ server' = [server EXCEPT ![c] = OnClientMessage(@, kind, ok)]
    /\ UNCHANGED <<clientVars, pcm, mic>>

\* The client socket closes or fails.  The socket emits 'close' (after
\* 'error', if it failed) at once; the handlers of ws.on('close') and
\* ws.on('error') run only if they are registered by then.
ClientGone(c) ==
    /\ server[c].ws = "open"
    /\ server' = [server EXCEPT ![c] =
                    IF @.pc = "serving"
                    THEN CloseLiveSession([@ EXCEPT !.ws = "closed"])
                    ELSE [@ EXCEPT !.ws = "closed"]]
    /\ UNCHANGED <<clientVars, pcm, mic>>

ServerInit ==
    /\ Loaded
    /\ NoPayload
    /\ NoCapture
    /\ policy = "threshold"
    /\ audit = FALSE
    /\ budget = [sessions |-> MaxSessions, ingests |-> MaxIngests, cuts |-> MaxCuts]

ServerNext ==
    \/ Connect
    \/ \E c \in Conns : UpstreamOpens(c)
    \/ \E c \in Conns : ConnectFails(c)
    \/ \E c \in Conns, m \in UpstreamMessages : UpstreamMessage(c, m)
    \/ \E c \in Conns : UpstreamError(c)
    \/ \E c \in Conns : UpstreamCloses(c)
    \/ \E c \in Conns, kind \in ClientKinds, ok \in BOOLEAN : ClientMessage(c, kind, ok)
    \/ \E c \in Conns : ClientGone(c)

ServerSpec == ServerInit /\ [][ServerNext]_vars

\* C19: once the client socket of a connection is gone and the handler is
\* past the await, the upstream session of that connection is not left open
\* with no close asked of it.
C19_UpstreamClosedAfterClientGone ==
    \A c \in Conns :
        (server[c].ws = "closed" /\ server[c].pc # "connect" /\ server[c].upstream = "open")
            => server[c].closeRequested

\* C20: an open AI session always has an inactivity timer armed.
C20_InactivityTimerArmed ==
    \A c \in Conns :
        (server[c].upstream = "open" /\ server[c].isLiveSessionOpen)
            => PendingTimers(server[c]) # {}

----------------------------------------------------------------------------
(* Sessions *)

(* The state endSessionCleanup() leaves: no session active or loading,     *)
(* nothing pending, nothing tracked, isPlaying false.                      *)
CleanedUp ==
    /\ ~isSessionActive
    /\ ~isLoadingSession
    /\ clientPlaybackBuffer = <<>>
    /\ audioQueue = <<>>
    /\ ~isPlaying
    /\ audioPlaybackNode = 0

(* C21.  A close or error of the socket and the report that the upstream   *)
(* session has closed leave the client cleaned up; a server error message  *)
(* leaves it cleaned up or with the close of a socket under way, whose     *)
(* close event cleans up.                                                  *)
C21_TransportErrorCleansUp ==
    [][policy = "threshold" =>
           \A s \in Sockets :
               /\ WsClose(s) => CleanedUp'
               /\ WsStatusClosed(s) => CleanedUp'
               /\ WsErrorMessage(s) =>
                      \/ CleanedUp'
                      \/ \E t \in Sockets : wsState'[t] = "closing"]_vars

----------------------------------------------------------------------------
(* The relay *)

(* How many messages of kind k a connection has sent to its client. *)
SentCount(conn, k) == Cardinality({i \in 1 .. Len(conn.sent) : conn.sent[i] = k})

(* C22.  Every upstream message flagged interrupted, with or without audio *)
(* data in it, adds exactly one 'interruption' to the messages sent to the *)
(* client, after everything that was sent before.                          *)
C22_InterruptedIsRelayedOnce ==
    [][\A c \in Conns, m \in UpstreamMessages :
           (m.interrupted /\ UpstreamMessage(c, m))
               => /\ SentCount(server'[c], "interruption")
                         = SentCount(server[c], "interruption") + 1
                  /\ SubSeq(server'[c].sent, 1, Len(server[c].sent)) = server[c].sent]_vars

----------------------------------------------------------------------------
(* Decoding one payload: queueAudio(arrayBuffer), app.js:276-290, on the   *)
(* byte values.  A sample value is written as its numerator over 32768:    *)
(* int16Array[i] / 32768.0 is exact in a Float32Array and in the numbers   *)
(* pushed onto clientPlaybackBuffer.                                       *)

MaxPayloadBytes == 4

ByteValues == {0, 1, 127, 128, 255}

RECURSIVE BytesOfLength(_)
BytesOfLength(n) ==
    IF n = 0 THEN {<<>>}
    ELSE {Append(b, v) : b \in BytesOfLength(n - 1), v \in ByteValues}

Payloads == UNION {BytesOfLength(n) : n \in 0 .. MaxPayloadBytes}

(* Samples pending before the payload arrives. *)
PendingBefore == {<<>>, <<-32768, 32767>>}

(* A variant of the typed-array view that reads the two bytes as an        *)
(* unsigned value (Uint16Array).                                           *)
Uint16At(bytes, i) == bytes[2 * i - 1] + 256 * bytes[2 * i]

(* Element i (from 1) of new Int16Array(arrayBuffer): two bytes, low byte  *)
(* first, as a two's-complement value.                                     *)
Int16At(bytes, i) ==
    LET u == bytes[2 * i - 1] + 256 * bytes[2 * i]
    IN IF u >= 32768 THEN u - 65536 ELSE u

(* The float32Array of queueAudio, app.js:278-282. *)
Float32Of(bytes) == [i \in 1 .. (Len(bytes) \div 2) |-> Int16At(bytes, i)]

(* queueAudio(arrayBuffer) on pcm.payload.  An odd byte length throws in   *)
(* new Int16Array before anything is written.  schedulePlayback() is       *)
(* called once at the end; with fewer samples pending than the threshold   *)
(* it returns without a change (app.js:297).                               *)
QueueAudioBytes ==
    /\ pcm.calls = 0
    /\ ~pcm.raised
    /\ Len(pcm.buffer) + (Len(pcm.payload) \div 2) < MIN_SAMPLES_TO_START_PLAYBACK
    /\ pcm' = IF Len(pcm.payload) % 2 = 1
              THEN [pcm EXCEPT !.raised = TRUE]
              ELSE [pcm EXCEPT !.buffer = pcm.buffer \o Float32Of(pcm.payload),
                               !.calls = pcm.calls + 1]
    /\ UNCHANGED <<clientVars, server, mic>>

DecodeInit ==
    /\ Loaded
    /\ NoCapture
    /\ policy = "threshold"
    /\ audit = FALSE
    /\ budget = [sessions |-> MaxSessions, ingests |-> MaxIngests, cuts |-> MaxCuts]
    /\ pcm \in [payload : Payloads, buffer : PendingBefore, calls : {0}, raised : {FALSE}]

DecodeNext == QueueAudioBytes

DecodeSpec == DecodeInit /\ [][DecodeNext]_vars

(* C23.  A payload of 2k bytes, k >= 1, appends k samples behind the       *)
(* samples already pending, which stay as they were; the i-th is the       *)
(* signed 16-bit value of bytes 2i-1 (low) and 2i (high) over 32768, so    *)
(* between -1 and 1; and schedulePlayback() is called once.                *)
C23_IngestAppendsDecoded ==
    [][(pcm' # pcm /\ Len(pcm.payload) % 2 = 0 /\ Len(pcm.payload) >= 2) =>
           LET k == Len(pcm.payload) \div 2
               old == Len(pcm.buffer)
           IN /\ Len(pcm'.buffer) = old + k
              /\ SubSeq(pcm'.buffer, 1, old) = pcm.buffer
              /\ \A i \in 1 .. k :
                     LET v == pcm'.buffer[old + i]
                     IN /\ -32768 <= v /\ v <= 32767
                        /\ (v - (pcm.payload[2 * i - 1] + 256 * pcm.payload[2 * i]))
                               % 65536 = 0
              /\ pcm'.calls = pcm.calls + 1
              /\ ~pcm'.raised]_vars

(* Two samples were pending; the payload FF 7F 00 80 has added 32767/32768 *)
(* and -1 behind them.                                                     *)
C23_Witness ==
    /\ pcm.payload = <<255, 127, 0, 128>>
    /\ pcm.calls = 1
    /\ pcm.buffer = <<-32768, 32767, 32767, -32768>>

----------------------------------------------------------------------------
(* Units and bookkeeping *)

(* C24.  In the threshold client every unit a step creates holds between   *)
(* 1 and 2 x threshold samples, and isPlaying turns true only in a step    *)
(* that creates a unit.                                                    *)
C24_UnitSizeWithinBounds ==
    [][policy = "threshold" =>
           /\ \A n \in 1 .. Len(nodes') :
                  n > Len(nodes) =>
                      /\ SampleCount(nodes'[n].samples) >= 1
                      /\ SampleCount(nodes'[n].samples) <= 2 * MIN_SAMPLES_TO_START_PLAYBACK
           /\ (isPlaying' /\ Len(nodes') = Len(nodes)) => isPlaying]_vars

(* A unit of the maximum size was cut from a longer pending buffer, and a  *)
(* unit of less than the maximum has been created as well.                 *)
C24_Witness ==
    /\ policy = "threshold"
    /\ \E n \in NodeIds :
           SampleCount(nodes[n].samples) = 2 * MIN_SAMPLES_TO_START_PLAYBACK
    /\ \E n \in NodeIds :
           SampleCount(nodes[n].samples) < 2 * MIN_SAMPLES_TO_START_PLAYBACK

(* Idle: nothing pending, no unit sounding and no ended event waiting. *)
Idle == Pending = 0 /\ audioQueue = <<>> /\ Quiescent

(* C25.  An interruption handled while idle sends no stop request and      *)
(* leaves the pending buffer, isPlaying, the tracked unit and the session  *)
(* flags as they were.                                                     *)
C25_IdleInterruptionIsNoOp ==
    [][(InterruptionStep /\ Idle) =>
           /\ cuts'[Len(cuts')].node = 0
           /\ clientPlaybackBuffer' = clientPlaybackBuffer
           /\ isPlaying' = isPlaying
           /\ audioPlaybackNode' = audioPlaybackNode
           /\ isSessionActive' = isSessionActive
           /\ isLoadingSession' = isLoadingSession]_vars

(* The units the device has started and whose end the client has not been  *)
(* told of: sounding, or played to their end with the ended event still to *)
(* be dispatched.                                                          *)
Unended ==
    {n \in NodeIds :
        \/ nodes[n].state = "playing"
        \/ nodes[n].state = "finished" /\ nodes[n].ended = "queued"}

(* C26.  In the threshold client: while a unit is sounding isPlaying is    *)
(* true and audioPlaybackNode is that unit, the only one sounding; and     *)
(* while isPlaying is true a unit is sounding or has played to its end     *)
(* with its ended event still to come.                                     *)
C26_BookkeepingMatchesDevice ==
    policy = "threshold" =>
        /\ Sounding # {} => (isPlaying /\ Sounding = {audioPlaybackNode})
        /\ isPlaying => Unended # {}

----------------------------------------------------------------------------
(* Several sessions *)

(* The session state startSession() and the handlers of the current        *)
(* session own.                                                            *)
SessionState ==
    <<isSessionActive, isLoadingSession, audioContext, closePending,
      clientPlaybackBuffer, audioQueue, isPlaying, audioPlaybackNode, nodes>>

(* C27.  A close event or a status report of a socket that is not the      *)
(* current session's socket leaves the session flags, the audio context    *)
(* and the playback state as they are.                                     *)
C27_StaleSocketEventsIgnored ==
    [][\A s \in Sockets :
           (s # webSocket /\ (WsClose(s) \/ WsStatusClosed(s) \/ WsStatusOpened(s)))
               => SessionState' = SessionState]_vars

(* C28.  The completion of close() on a context that is not the current    *)
(* audioContext leaves audioContext as it is.                              *)
C28_StaleCloseKeepsContext ==
    [][\A c \in Contexts :
           (c # audioContext /\ ContextClosed(c)) => audioContext' = audioContext]_vars

----------------------------------------------------------------------------
(* Forwarding of client audio *)

(* C29.  A client message is handed to sendRealtimeInput only on a         *)
(* connection whose upstream session has opened and has neither failed nor *)
(* closed, and the call, whether it succeeds or throws, leaves             *)
(* isLiveSessionOpen, the client socket and the upstream session as they   *)
(* were.                                                                   *)
C29_ForwardOnlyWhileOpen ==
    [][\A c \in Conns :
           server'[c].forwarded > server[c].forwarded
               => /\ server[c].upstream = "open"
                  /\ server[c].isLiveSessionOpen
                  /\ server'[c].isLiveSessionOpen = server[c].isLiveSessionOpen
                  /\ server'[c].ws = server[c].ws
                  /\ server'[c].upstream = server[c].upstream
                  /\ server'[c].closeRequested = server[c].closeRequested]_vars

(* Audio was forwarded, then the upstream session closed while the client  *)
(* socket stayed open.                                                     *)
C29_Witness ==
    \E c \in Conns :
        /\ server[c].forwarded > 0
        /\ server[c].upstream = "closed"
        /\ server[c].ws = "open"
        /\ ~server[c].isLiveSessionOpen

(* The session starts in progress: the sockets startSession() has created  *)
(* that are connected and have not yet reported 'AI session opened.'.      *)
StartsInProgress == {s \in Sockets : wsState[s] = "open"}

(* C30.  At most one session start is in progress at any time, and while   *)
(* one is, isLoadingSession is true, so that a click changes nothing.      *)
C30_OneStartAtATime ==
    /\ Cardinality(StartsInProgress) <= 1
    /\ StartsInProgress # {} => isLoadingSession

----------------------------------------------------------------------------
(* Repeated cleanup *)

(* C31.  endSessionCleanup() run again, with no session started since the  *)
(* previous run, leaves the session state as it is and sends no stop() to  *)
(* a unit and no close() to an audio context.                              *)
C31_CleanupIdempotent ==
    [][(SessionEndStep /\ Terminal) =>
           /\ SessionState' = SessionState
           /\ cuts'[Len(cuts')].node = 0
           /\ cuts'[Len(cuts')].closed = 0]_vars

(* ---------------------------------------------------------------------- *)
(* The session flags and the button                                        *)
(* ---------------------------------------------------------------------- *)

(* C32.  isSessionActive and isLoadingSession are never both true, and the *)
(* session button is disabled exactly while isLoadingSession is true.      *)
C32_FlagsExclusiveButtonFollowsLoading ==
    /\ ~(isSessionActive /\ isLoadingSession)
    /\ buttonDisabled <=> isLoadingSession

\* A later session is loading, button disabled, after an earlier one was
\* opened and cleaned up.
C32_Witness ==
    /\ isLoadingSession
    /\ buttonDisabled
    /\ cuts # <<>>
    /\ \E s \in Sockets : wsState[s] \in {"live", "ended", "closing", "closed"}

(* ---------------------------------------------------------------------- *)
(* The microphone input processor (input-processor.js, app.js:324-396)     *)
(* ---------------------------------------------------------------------- *)

MaxProcessCalls == 4

\* audioContext.sampleRate as handed to the constructor (app.js:110, 333);
\* 0 stands for the rate the constructor replaces by 48000.
InputSampleRates == {0, 16000, 44100, 48000}

\* Lengths of inputs[0][0]: one render quantum, and larger frames.
FrameLengths == {128, 384, 640}

\* Math.floor(combinedBuffer.length / ratio), ratio = rate / 16000
\* (app.js:368-369)
OutputLength(n, rate) == (n * TARGET_SAMPLE_RATE) \div rate

\* process() that clears the buffer but leaves totalSamplesCollected as it
\* is when a message is posted (app.js:366 left out).
InputProcessorProcessKeepingCount(p, present, length) ==
    IF ~present
    THEN [p EXCEPT !.calls = @ + 1]
    ELSE LET n == p.buffer.len + length
             total == p.totalSamplesCollected + length
         IN IF total >= PROCESSOR_BUFFER_SIZE
            THEN [p EXCEPT !.buffer = [from |-> p.buffer.from + n, len |-> 0],
                           !.totalSamplesCollected = total,
                           !.captured = @ + length,
                           !.calls = @ + 1,
                           !.posted = Append(@, [from |-> p.buffer.from,
                                                 input |-> n,
                                                 samples |-> OutputLength(n, p.inputSampleRate)])]
            ELSE [p EXCEPT !.buffer = [from |-> p.buffer.from, len |-> n],
                           !.totalSamplesCollected = total,
                           !.captured = @ + length,
                           !.calls = @ + 1]

(* InputProcessor.process(inputs) (app.js:345-393): `present` is whether   *)
(* inputs[0] has a channel, `length` the length of its first channel.      *)
InputProcessorProcess(p, present, length) ==
    IF ~present
    THEN [p EXCEPT !.calls = @ + 1]
    ELSE LET n == p.buffer.len + length
             total == p.totalSamplesCollected + length
         IN IF total >= PROCESSOR_BUFFER_SIZE
            THEN [p EXCEPT !.buffer = [from |-> p.buffer.from + n, len |-> 0],
                           !.totalSamplesCollected = 0,
                           !.captured = @ + length,
                           !.calls = @ + 1,
                           !.posted = Append(@, [from |-> p.buffer.from,
                                                 input |-> n,
                                                 samples |-> OutputLength(n, p.inputSampleRate)])]
            ELSE [p EXCEPT !.buffer = [from |-> p.buffer.from, len |-> n],
                           !.totalSamplesCollected = total,
                           !.captured = @ + length,
                           !.calls = @ + 1]

\* The audio rendering thread calls process() with one frame.
Process(present, length) ==
    /\ mic.calls < MaxProcessCalls
    /\ mic' = InputProcessorProcess(mic, present, length)
    /\ UNCHANGED <<clientVars, server, pcm>>

CaptureInit ==
    /\ Loaded
    /\ NoPayload
    /\ policy = "threshold"
    /\ audit = FALSE
    /\ budget = [sessions |-> MaxSessions, ingests |-> MaxIngests, cuts |-> MaxCuts]
    /\ mic \in {NewInputProcessor(rate) : rate \in InputSampleRates}

CaptureNext == \E present \in BOOLEAN, length \in FrameLengths : Process(present, length)

CaptureSpec == CaptureInit /\ [][CaptureNext]_vars

\* The largest k with k * rate <= n * 16000, that is floor(n / ratio).
FloorOfRatio(n, rate) ==
    CHOOSE k \in 0..n : /\ k * rate <= n * TARGET_SAMPLE_RATE
                        /\ (k + 1) * rate > n * TARGET_SAMPLE_RATE

\* The posted blocks follow each other from sample 0 on without gap or
\* overlap, the buffer follows the last of them, and the buffer ends at the
\* last sample captured.
BlocksPartitionCaptured(p) ==
    /\ \A i \in 1..Len(p.posted) :
           p.posted[i].from = IF i = 1 THEN 0
                              ELSE p.posted[i - 1].from + p.posted[i - 1].input
    /\ p.buffer.from = IF p.posted = <<>> THEN 0
                       ELSE p.posted[Len(p.posted)].from + p.posted[Len(p.posted)].input
    /\ p.buffer.from + p.buffer.len = p.captured

(* C33.  After every process() call totalSamplesCollected is the number of *)
(* buffered samples and is below PROCESSOR_BUFFER_SIZE; a call that brings *)
(* the buffered count n to 512 or more posts exactly one message, of       *)
(* floor(n / ratio) samples made of those n, and empties the buffer; any   *)
(* other call posts nothing; and every captured sample is in the buffer or *)
(* in the block of exactly one posted message.                             *)
C33_ProcessorBuffersAndPosts ==
    [][mic' # mic =>
           LET n == mic.buffer.len + (mic'.captured - mic.captured)
           IN /\ mic'.totalSamplesCollected = mic'.buffer.len
              /\ mic'.totalSamplesCollected < PROCESSOR_BUFFER_SIZE
              /\ IF n >= PROCESSOR_BUFFER_SIZE
                 THEN /\ Len(mic'.posted) = Len(mic.posted) + 1
                      /\ SubSeq(mic'.posted, 1, Len(mic.posted)) = mic.posted
                      /\ mic'.posted[Len(mic'.posted)].input = n
                      /\ mic'.posted[Len(mic'.posted)].samples
                             = FloorOfRatio(n, mic.inputSampleRate)
                      /\ mic'.buffer.len = 0
                 ELSE /\ mic'.posted = mic.posted
                      /\ mic'.buffer.len = n
              /\ BlocksPartitionCaptured(mic')]_vars

\* At 44.1 kHz a block of more than 512 samples has been posted and
\* further samples are buffered behind it.
C33_Witness ==
    /\ mic.inputSampleRate = 44100
    /\ mic.posted # <<>>
    /\ mic.posted[1].input > PROCESSOR_BUFFER_SIZE
    /\ mic.posted[1].samples < mic.posted[1].input
    /\ mic.buffer.len > 0

====
